---- MODULE Spec2Model ----
(***************************************************************************)
(* magnet: the Runner (core/runner.rs), the Simulation capabilities under  *)
(* platforms/windows/actions and the telemetry they write.                 *)
(*                                                                         *)
(* A capability's run is a pure operator from the shared Config and the    *)
(* outcomes of the host calls it makes (its "env") to what it returns,     *)
(* the write_action_record calls it makes, the lines it appends to its     *)
(* detail streams and the host mutations it performs.  The Runner applies  *)
(* it, one capability per step.  The DNS storm is the one capability whose *)
(* run is not a single step: its probes complete in any order.             *)
(***************************************************************************)
EXTENDS Integers, Sequences, FiniteSets, TLC

VARIABLES
    simulations,   \* Runner.simulations: the registered capabilities, in order
    config,        \* Runner.config: [test_id, dry_run]
    phase,         \* "setup" (main registers) | "running" (in run_all) | "returned"
    cursor,        \* number of elements the for loop of run_all has taken
    active,        \* id of the capability whose run has not returned yet, 0 if none
    result,        \* what run_all returned: "none" until it returns, "Ok" or the error
    ledger,        \* the ledger file: the ActionRecords stored, oldest first
    per_item,      \* the itemized detail streams (one line per unit of work)
    summary,       \* the summary detail streams (one line per run of a module)
    storm,         \* the call frame of a DNS storm in flight
    nq,            \* the number of probes of a storm (TOTAL_QUERIES, scaled)
    reg_calls,     \* history: the kinds passed to register, in call order
    invoked,       \* history: the run invocations, in order
    returns,       \* history: what each run returned
    write_calls,   \* history: every write_action_record call, stored or not
    effects,       \* history: the host mutations performed, as <<id, what>>
    storms,        \* history: the storms that finished
    detail_log,    \* history: the appends to the detail streams, in the order made
    load,          \* what Config::load() returned in main: "ok" or "err"
    frame,         \* the call frame of a looping capability explored step by step
    exit           \* how main ended: [code, footer], code -1 while it runs

vars == <<simulations, config, phase, cursor, active, result, ledger, per_item,
          summary, storm, nq, reg_calls, invoked, returns, write_calls, effects,
          storms, detail_log, load, frame, exit>>

----------------------------------------------------------------------------
(* Bounds of the model *)

MaxSims == 2          \* register is called at most this many times
RunnerQueries == 1    \* probes per storm when the storm runs under the Runner
MaxQueries == 3       \* probes per storm when the storm is explored alone
MaxFound == 2         \* minidump targets per run whose lookup is not a plain miss
MaxAccounts == 2      \* accounts `net localgroup administrators` lists, at most
MaxHits == 1          \* logons that succeed per run, at most
MaxWorkers == 2       \* threads of the pool that runs the closures of a storm, at most

(* Program constants *)

TOTAL_QUERIES == 40   \* probes per DNS storm
DOMAINS_LEN == 32     \* DOMAINS.len()
MIN_JITTER_MS == 10
MAX_JITTER_MS == 80
NUM_PIPES == 7        \* PIPE_NAMES.len()
NUM_OFFSETS == 4      \* offsets.len() in time_manipulation_sim
NUM_SSH_CMDS == 4     \* commands.len() in enable_ssh
NUM_PWDS == 11        \* test_pwds.len() in pwd_guessing
NUM_TARGETS == 9      \* processes.len() in minidump_proc

\* "T-1" is the test_id of the configuration that loads, "T-0" the one of
\* Config::default().
TestIds == {"T-0", "T-1"}

Kinds == {"ransom_note", "create_proc", "registry_persistence", "startup_exec",
          "minidump_proc", "enable_rdp", "named_pipe_sim", "get_clipboard",
          "time_manipulation_sim", "enable_ssh", "pwd_guessing", "get_env_vars",
          "share_enum", "dns_query_storm", "discovery_sim"}

\* The action label each module puts in its ActionRecords.
ActionLabel(kind) ==
    CASE kind = "ransom_note" -> "ransom_note"
      [] kind = "create_proc" -> "create_proc"
      [] kind = "registry_persistence" -> "registry_persistence"
      [] kind = "startup_exec" -> "T1547.001 - windows::startup_exec"
      [] kind = "minidump_proc" -> "minidump_proc"
      [] kind = "enable_rdp" -> "T1021.001 - windows::enable_rdp"
      [] kind = "named_pipe_sim" -> "T1559.002 - windows::named_pipe_sim"
      [] kind = "get_clipboard" -> "T1115 - windows::get_clipboard"
      [] kind = "time_manipulation_sim" -> "T1124 - T1070.006 windows::time_manipulation_sim"
      [] kind = "enable_ssh" -> "enable_ssh"
      [] kind = "pwd_guessing" -> "T1110.001 - windows::pwd_guessing"
      [] kind = "get_env_vars" -> "T1082 - windows::get_env_vars"
      [] kind = "share_enum" -> "share_enum"
      [] kind = "dns_query_storm" -> "T1071.004 - windows::dns_query_storm"
      [] kind = "discovery_sim" -> "discovery_sim"


----------------------------------------------------------------------------
(* Sequence helpers *)

RECURSIVE Flatten(_)
\* the concatenation of a sequence of sequences
Flatten(ss) == IF ss = <<>> THEN <<>> ELSE Head(ss) \o Flatten(Tail(ss))

\* booleans as they appear in the integer tuples of details and summaries
B(b) == IF b THEN 1 ELSE 0

----------------------------------------------------------------------------
(* Telemetry ledger: core::telemetry::write_action_record *)

\* One write_action_record(cfg, rec) call; up says whether the ledger file can
\* be opened and written.  The call appends the record iff up.
ActionRecordFixedId(cfg, kind, status, details, up) ==
    [test_id |-> "T-1", action |-> ActionLabel(kind), status |-> status,
     details |-> details, stored |-> up]
ActionRecord(cfg, kind, status, details, up) ==
    [test_id |-> cfg.test_id, action |-> ActionLabel(kind), status |-> status,
     details |-> details, stored |-> up]

\* What write_action_record returns.
write_action_record(up) == IF up THEN "Ok" ELSE "TelemetryError"

\* The outcomes of a module's detail-telemetry writer.  It resolves the
\* telemetry directory, appends the itemized lines, then the summary line,
\* then the human-readable log, and returns at the first failure: "nodir"
\* before any line, "items_err" at one of the itemized lines, "summary_err"
\* at the summary line, "log_err" in the log.
DetOutcomes == {"ok", "nodir", "items_err", "summary_err", "log_err"}

\* The itemized lines, of n, whose append can be the one that fails (0: none
\* fails), for each outcome of the writer.
FailingLines(det, n) == IF det = "items_err" THEN 1..n ELSE {0}

ItemLine(cfg, kind, item) == [module |-> kind, test_id |-> cfg.test_id, item |-> item]
SummaryLine(cfg, kind, data) == [module |-> kind, test_id |-> cfg.test_id, data |-> data]

\* The itemized lines a detail writer leaves behind.
\* for r in records { writeln!(pf, ..)? }: the loop returns at the line, at,
\* whose append fails, leaving the lines before it.
ItemsWrittenLosingLast(det, at, lines) == SubSeq(lines, 1, Len(lines) - 1)
ItemsWritten(det, at, lines) ==
    CASE det = "nodir" -> <<>>
      [] det = "items_err" -> SubSeq(lines, 1, at - 1)
      [] OTHER -> lines
\* The summary lines a detail writer leaves behind.
SummaryWritten(det, line) == IF det \in {"ok", "log_err"} THEN <<line>> ELSE <<>>

\* What a run hands back to the step that applies it.
Out(res, recs, fx, items, sums) ==
    [res |-> res, recs |-> recs, effects |-> fx, items |-> items, sums |-> sums]

\* The dry-run branch of the modules that ignore the result of the record
\* write (let _ = write_action_record(..)).
DryRunIgnoring(cfg, kind, env) ==
    Out("Ok", <<ActionRecord(cfg, kind, "dry-run", <<>>, env.tel)>>, {}, <<>>, <<>>)

\* The dry-run branch of the modules that propagate the result of the record
\* write (write_action_record(..)?).
DryRunPropagating(cfg, kind, env) ==
    Out(write_action_record(env.tel),
        <<ActionRecord(cfg, kind, "dry-run", <<>>, env.tel)>>, {}, <<>>, <<>>)

----------------------------------------------------------------------------
(* ransom_note.rs *)

RansomNote_env == [desktop : BOOLEAN, open_ok : BOOLEAN, write_ok : BOOLEAN, tel : BOOLEAN]

\* The note written before the dry-run test, which then only picks the record.
RansomNote_run_late_check(cfg, env) ==
    LET k == "ransom_note" IN
    IF ~env.desktop THEN Out("NoDesktopPath", <<>>, {}, <<>>, <<>>)
    ELSE IF ~env.open_ok
    THEN Out("OpenError", <<ActionRecord(cfg, k, "failed", <<>>, env.tel)>>, {}, <<>>, <<>>)
    ELSE IF ~env.write_ok
    THEN Out("WriteError", <<ActionRecord(cfg, k, "failed", <<>>, env.tel)>>,
             {"note_file"}, <<>>, <<>>)
    ELSE Out("Ok", <<ActionRecord(cfg, k, IF cfg.dry_run THEN "dry-run" ELSE "written",
                                  <<>>, env.tel)>>,
             {"note_file"}, <<>>, <<>>)

RansomNote_run(cfg, env) ==
    LET k == "ransom_note" IN
    IF ~env.desktop THEN Out("NoDesktopPath", <<>>, {}, <<>>, <<>>)
    ELSE IF cfg.dry_run THEN DryRunIgnoring(cfg, k, env)
    ELSE IF ~env.open_ok
    THEN Out("OpenError", <<ActionRecord(cfg, k, "failed", <<>>, env.tel)>>,
             {}, <<>>, <<>>)
    ELSE IF ~env.write_ok
    THEN Out("WriteError", <<ActionRecord(cfg, k, "failed", <<>>, env.tel)>>,
             {"note_file"}, <<>>, <<>>)
    ELSE Out("Ok", <<ActionRecord(cfg, k, "written", <<>>, env.tel)>>,
             {"note_file"}, <<>>, <<>>)

(* create_proc.rs *)

CreateProc_env == [out_path : BOOLEAN, spawn_ok : BOOLEAN, tel : BOOLEAN]

CreateProc_run(cfg, env) ==
    LET k == "create_proc" IN
    IF ~env.out_path THEN Out("NoTelemetryPath", <<>>, {}, <<>>, <<>>)
    ELSE IF cfg.dry_run THEN DryRunIgnoring(cfg, k, env)
    ELSE IF env.spawn_ok
    THEN Out("Ok", <<ActionRecord(cfg, k, "written", <<>>, env.tel)>>,
             {"process"}, <<>>, <<>>)
    ELSE Out("SpawnError", <<ActionRecord(cfg, k, "failed", <<>>, env.tel)>>,
             {}, <<>>, <<>>)

(* registry_persistence.rs *)

RegistryPersistence_env ==
    [cmd_drop : {"ok", "create_err", "write_err"}, run_key_ok : BOOLEAN,
     verified : BOOLEAN, det : DetOutcomes, tel : BOOLEAN]

\* Self::cleanup_run_key(cfg), after the verification and the telemetry
\* write, whatever they gave.
RegistryCleanupIfClean(verified, det) ==
    IF verified /\ det = "ok" THEN {"run_key_cleanup"} ELSE {}
RegistryCleanup(verified, det) == {"run_key_cleanup"}

RegistryPersistence_run(cfg, env) ==
    LET k == "registry_persistence" IN
    IF cfg.dry_run THEN DryRunIgnoring(cfg, k, env)
    ELSE IF env.cmd_drop = "create_err"
    THEN Out("CmdDropError", <<>>, {}, <<>>, <<>>)
    ELSE IF env.cmd_drop = "write_err"
    THEN Out("CmdDropError", <<>>, {"cmd_file"}, <<>>, <<>>)
    ELSE IF ~env.run_key_ok
    THEN Out("RunKeyError", <<>>, {"cmd_file"}, <<>>, <<>>)
    ELSE Out("Ok", <<ActionRecord(cfg, k, "written", <<>>, env.tel)>>,
             {"cmd_file", "run_key_set"} \cup RegistryCleanup(env.verified, env.det),
             <<>>,
             SummaryWritten(env.det, SummaryLine(cfg, k, <<B(env.verified)>>)))

(* startup_exec.rs *)

StartupExec_env ==
    [startup_dir : BOOLEAN, script : {"ok", "create_err", "write_err"},
     det : DetOutcomes, tel : BOOLEAN]

StartupExec_run(cfg, env) ==
    LET k == "startup_exec" IN
    IF cfg.dry_run THEN DryRunIgnoring(cfg, k, env)
    ELSE IF ~env.startup_dir THEN Out("NoStartupFolder", <<>>, {}, <<>>, <<>>)
    ELSE IF env.script # "ok"
    THEN Out("ScriptError",
             <<ActionRecord(cfg, k, "failed", <<>>, env.tel)>>,
             IF env.script = "write_err" THEN {"startup_script"} ELSE {}, <<>>, <<>>)
    ELSE Out("Ok", <<ActionRecord(cfg, k, "written", <<>>, env.tel)>>,
             {"startup_script"}, <<>>, <<>>)

(* enable_rdp.rs *)

EnableRdp_env == [reg_ok : BOOLEAN, fw_ok : BOOLEAN, verify_ok : BOOLEAN, tel : BOOLEAN]

\* status: if all_ok { "completed" } else { "partial" }
RdpStatusError(all_ok) == IF all_ok THEN "completed" ELSE "error"
RdpStatus(all_ok) == IF all_ok THEN "completed" ELSE "partial"

\* if !verify_ok { return Err(..) } Ok(())
RdpResultAllOk(reg_ok, fw_ok, verify_ok) ==
    IF reg_ok /\ fw_ok /\ verify_ok THEN "Ok" ELSE "RdpListenerNotDetected"
RdpResult(reg_ok, fw_ok, verify_ok) ==
    IF ~verify_ok THEN "RdpListenerNotDetected" ELSE "Ok"

EnableRdp_run(cfg, env) ==
    LET k == "enable_rdp"
        all_ok == env.reg_ok /\ env.fw_ok /\ env.verify_ok
    IN
    IF cfg.dry_run THEN DryRunIgnoring(cfg, k, env)
    ELSE Out(RdpResult(env.reg_ok, env.fw_ok, env.verify_ok),
             <<ActionRecord(cfg, k, RdpStatus(all_ok),
                            <<B(env.reg_ok), B(env.fw_ok), B(env.verify_ok)>>, env.tel)>>,
             {"reg_add", "firewall_rule", "netstat"}, <<>>, <<>>)

(* share_enum.rs *)

ShareEnum_env == [tel : BOOLEAN]

ShareEnum_run(cfg, env) ==
    LET k == "share_enum" IN
    IF cfg.dry_run THEN DryRunIgnoring(cfg, k, env)
    ELSE Out("Ok", <<ActionRecord(cfg, k, "completed", <<>>, env.tel)>>,
             {"net_view", "net_share", "get_smbshare", "wmi_share"}, <<>>, <<>>)

(* discovery_sim.rs: registered by main, modelled from the contract of an
   Action Capability *)

DiscoverySim_env == [ok : BOOLEAN, tel : BOOLEAN]

\* run tests dry_run before any side effect and then emits the one dry-run
\* record; otherwise it performs its effect and writes a terminal record, or
\* returns its error having attempted a failed record.  An error of the
\* record write is not the run's.
DiscoverySim_run(cfg, env) ==
    LET k == "discovery_sim" IN
    IF cfg.dry_run THEN DryRunIgnoring(cfg, k, env)
    ELSE IF env.ok
    THEN Out("Ok", <<ActionRecord(cfg, k, "completed", <<>>, env.tel)>>,
             {"discovery"}, <<>>, <<>>)
    ELSE Out("DiscoveryError", <<ActionRecord(cfg, k, "failed", <<>>, env.tel)>>,
             {"discovery"}, <<>>, <<>>)

(* get_clipboard.rs *)

Clipboard_env == [clip_ok : BOOLEAN, det : DetOutcomes, tel : BOOLEAN]

Clipboard_run(cfg, env) ==
    LET k == "get_clipboard" IN
    IF cfg.dry_run THEN DryRunPropagating(cfg, k, env)
    ELSE Out(write_action_record(env.tel),
             <<ActionRecord(cfg, k, "completed", <<B(env.clip_ok)>>, env.tel)>>,
             {"clipboard_read"}, <<>>,
             SummaryWritten(env.det, SummaryLine(cfg, k, <<1>>)))

(* get_env_vars.rs *)

EnvVars_env == [det : DetOutcomes, tel : BOOLEAN]

EnvVars_run(cfg, env) ==
    LET k == "get_env_vars" IN
    IF cfg.dry_run THEN DryRunPropagating(cfg, k, env)
    ELSE Out(write_action_record(env.tel),
             <<ActionRecord(cfg, k, "completed", <<>>, env.tel)>>,
             {"env_read"}, <<>>,
             SummaryWritten(env.det, SummaryLine(cfg, k, <<>>)))

(* time_manipulation_sim.rs *)

\* set_ok: the offsets (by position) whose SetSystemTime call succeeds.
TimeManipulation_env(full) ==
    [set_ok : IF full THEN SUBSET (1..NUM_OFFSETS) ELSE {{}, {2}, 1..NUM_OFFSETS},
     restore_ok : BOOLEAN, det : DetOutcomes, tel : BOOLEAN]

\* result: if ok { "success" } else { "blocked" }
TimeAttemptResult(ok) == IF ok THEN "success" ELSE "blocked"

\* if successful > 0 { restored = Self::set_system_time(&original); }
RestoreDueAlways(successful) == TRUE
RestoreDue(successful) == successful > 0

TimeManipulation_run(cfg, env) ==
    LET k == "time_manipulation_sim"
        attempts == [i \in 1..NUM_OFFSETS |-> i \in env.set_ok]
        successful == Cardinality({i \in 1..NUM_OFFSETS : attempts[i]})
        restored == IF RestoreDue(successful) THEN env.restore_ok ELSE FALSE
        data == <<Len(attempts), successful, B(restored)>>
    IN
    IF cfg.dry_run THEN DryRunPropagating(cfg, k, env)
    ELSE Out(write_action_record(env.tel),
             <<ActionRecord(cfg, k, IF successful > 0 THEN "completed" ELSE "blocked",
                            data, env.tel)>>,
             {"set_system_time"} \cup
                 (IF RestoreDue(successful) THEN {"restore_system_time"} ELSE {}),
             <<>>, SummaryWritten(env.det, SummaryLine(cfg, k, data)))

(* enable_ssh.rs *)

\* cmds_ok: the commands (by position) that PowerShell runs successfully.
EnableSsh_env(full) ==
    [cmds_ok : IF full THEN SUBSET (1..NUM_SSH_CMDS) ELSE {{}, 1..NUM_SSH_CMDS},
     port_ok : BOOLEAN, det : DetOutcomes, tel : BOOLEAN]

EnableSsh_run(cfg, env) ==
    LET k == "enable_ssh" IN
    IF cfg.dry_run THEN DryRunIgnoring(cfg, k, env)
    ELSE Out("Ok", <<ActionRecord(cfg, k, "written", <<B(env.port_ok)>>, env.tel)>>,
             {"powershell_commands", "port_check"}, <<>>,
             SummaryWritten(env.det, SummaryLine(cfg, k, <<B(env.port_ok)>>)))

(* pwd_guessing.rs *)

\* admins: how many accounts `net localgroup administrators` lists.
PwdGuessing_env(full) ==
    [enum_ok : BOOLEAN, admins : IF full THEN 0..2 ELSE 0..1,
     det : DetOutcomes, tel : BOOLEAN]

PwdGuessing_run(cfg, env) ==
    LET k == "pwd_guessing" IN
    IF cfg.dry_run THEN DryRunIgnoring(cfg, k, env)
    ELSE IF ~env.enum_ok
    THEN Out("AdminEnumError", <<ActionRecord(cfg, k, "failed", <<>>, env.tel)>>,
             {"net_localgroup"}, <<>>, <<>>)
    ELSE Out("Ok",
             <<ActionRecord(cfg, k, "written", <<NUM_PWDS * env.admins, env.admins>>,
                            env.tel)>>,
             {"net_localgroup"} \cup (IF env.admins > 0 THEN {"logon_attempts"} ELSE {}),
             <<>>,
             SummaryWritten(env.det,
                            SummaryLine(cfg, k, <<NUM_PWDS * env.admins, env.admins>>)))

(* minidump_proc.rs *)

\* created: the target processes (by position) whose dump file File::create
\* made; dumped: those among them whose dump MiniDumpWriteDump wrote.
Minidump_env(full) ==
    LET pairs == IF full
                 THEN {cd \in (SUBSET (1..NUM_TARGETS)) \X (SUBSET (1..NUM_TARGETS)) :
                          cd[2] \subseteq cd[1]}
                 ELSE {<<{}, {}>>, <<{3}, {}>>, <<{3}, {3}>>,
                       <<1..NUM_TARGETS, 1..NUM_TARGETS>>}
    IN
    {[out_dir |-> o, mkdir_ok |-> m, created |-> cd[1], dumped |-> cd[2], tel |-> t] :
        o \in BOOLEAN, m \in BOOLEAN, cd \in pairs, t \in BOOLEAN}

Minidump_run(cfg, env) ==
    LET k == "minidump_proc" IN
    IF cfg.dry_run THEN DryRunIgnoring(cfg, k, env)
    ELSE IF ~env.out_dir THEN Out("NoTelemetryDir", <<>>, {}, <<>>, <<>>)
    ELSE IF ~env.mkdir_ok THEN Out("MkdirError", <<>>, {}, <<>>, <<>>)
    ELSE Out("Ok",
             <<ActionRecord(cfg, k, "completed", <<Cardinality(env.dumped)>>, env.tel)>>,
             {"minidump_dir", "process_snapshot"} \cup
                 (IF env.created # {} THEN {"dump_file"} ELSE {}),
             <<>>, <<>>)

(* named_pipe_sim.rs *)

PipeOutcomes == {"nosrv", "noclient", "ok"}

\* pipes: per pipe name, whether CreateNamedPipeW fails, or it succeeds and
\* CreateFileW fails, or both succeed.
\* records.len() for the outcomes pipes: one record for a pipe that was not
\* created, three for any other.
PipeTotal(pipes) ==
    Len(pipes) + 2 * Cardinality({i \in DOMAIN pipes : pipes[i] # "nosrv"})

\* at: the line of the detail writer that fails, any line for three of the
\* vectors of outcomes and the first or the last for the others.
NamedPipe_env(full) ==
    LET some == {[i \in 1..NUM_PIPES |-> "ok"], [i \in 1..NUM_PIPES |-> "nosrv"],
                 [i \in 1..NUM_PIPES |-> IF i % 2 = 0 THEN "noclient" ELSE "ok"]}
        vectors == IF full THEN [1..NUM_PIPES -> PipeOutcomes] ELSE some
        at(p, d) == IF p \in some THEN FailingLines(d, PipeTotal(p))
                    ELSE FailingLines(d, PipeTotal(p)) \cap {0, 1, PipeTotal(p)}
    IN
    UNION {{[pipes |-> p, det |-> d, tel |-> t, at |-> a] :
                t \in BOOLEAN, a \in at(p, d)} :
           p \in vectors, d \in DetOutcomes}

PipeRecord(i, stage, success) == [pipe_name |-> i, stage |-> stage, success |-> success]

\* The records one iteration of the loop over PIPE_NAMES pushes.
PipeRecords(i, outcome) ==
    IF outcome = "nosrv" THEN <<PipeRecord(i, "create_pipe", FALSE)>>
    ELSE <<PipeRecord(i, "create_pipe", TRUE), PipeRecord(i, "server_ready", TRUE),
           PipeRecord(i, "client_connect", outcome = "ok")>>

\* records.iter().filter(|r| r.success).count()
SuccessfulLeading(records) ==
    Cardinality({i \in DOMAIN records : \A j \in 1..i : records[j].success})
Successful(records) == Cardinality({i \in DOMAIN records : records[i].success})

NamedPipe_run(cfg, env) ==
    LET k == "named_pipe_sim"
        records == Flatten([i \in 1..NUM_PIPES |-> PipeRecords(i, env.pipes[i])])
        successful == Successful(records)
        total == Len(records)
        failed == total - successful
    IN
    IF cfg.dry_run THEN DryRunPropagating(cfg, k, env)
    ELSE Out("Ok",
             <<ActionRecord(cfg, k, "completed", <<successful, failed>>, env.tel)>>,
             {"named_pipe"},
             ItemsWritten(env.det, env.at,
                          [i \in DOMAIN records |-> ItemLine(cfg, k, records[i])]),
             SummaryWritten(env.det, SummaryLine(cfg, k, <<total, successful, failed>>)))

(* dns_query_storm.rs *)

DnsDry_env == [tel : BOOLEAN]
\* at: the per-query line, of n, whose append fails, when the writer fails there.
DnsCollect_env(n) ==
    UNION {{[det |-> d, tel |-> t, at |-> a] : t \in BOOLEAN, a \in FailingLines(d, n)} :
           d \in DetOutcomes}

\* What lookup.to_socket_addrs() gives: an address, Ok with no address, or Err.
Lookups == {"addr", "empty", "err"}

\* DOMAINS[i % DOMAINS.len()], for the 0-based probe index i, as a position.
DomainOfNoWrap(i) == i
DomainOf(i) == i % DOMAINS_LEN

\* The DomainResult of probe number p (1-based; the closure's i is p - 1).
DomainResult(p, lookup) ==
    [domain |-> DomainOf(p - 1), success |-> lookup = "addr",
     ip |-> IF lookup = "addr" THEN "some" ELSE "none"]

\* fastrand::u64(MIN_JITTER_MS..MAX_JITTER_MS): the ends of the half-open range
JitterDraws == {MIN_JITTER_MS, MAX_JITTER_MS - 1}

\* A slot of the collected vector that its probe has not filled yet.
Pending == [domain |-> -1, success |-> FALSE, ip |-> "pending"]

\* A slot whose probe is inside lookup.to_socket_addrs() and the call does
\* not return: the closure sets no deadline on it.
Blocked == [domain |-> -1, success |-> FALSE, ip |-> "blocked"]

\* .collect(): the run goes on when every closure of the parallel map has
\* returned its result.
CollectedEarly(slots) == TRUE
Collected(slots) == \A p \in DOMAIN slots : slots[p] \notin {Pending, Blocked}

\* What the closure of the parallel map appends to the per-query stream when
\* its probe finishes: nothing, it only returns its DomainResult.
ProbeAppendsOwnLine(line) == <<line>>
ProbeAppends(line) == <<>>

\* slots: the vector being collected, by probe; jitter: the delay each probe
\* has drawn, 0 before it has; order: the probes as they finished; steps:
\* what the closure of each probe has done so far, in order; workers: the
\* threads of the pool that run the closures.
NoStorm == [by |-> 0, slots |-> <<>>, jitter |-> <<>>, order |-> <<>>, steps |-> <<>>,
            workers |-> 0]

\* into_par_iter() runs on rayon's global pool, whose size the host gives
\* (its logical CPUs, or RAYON_NUM_THREADS); a pool of more threads than
\* probes runs a storm as a pool of as many does.
PoolSizes(n) == 1..(IF n < MaxWorkers THEN n ELSE MaxWorkers)

\* The probes whose closure holds a thread of the pool: begun and not returned.
Busy(st) == {p \in DOMAIN st.slots : st.steps[p] # <<>> /\ st.slots[p] \in {Pending, Blocked}}

\* The closure of probe p has a thread, or one is free for it to begin on.
CanRun(st, p) == st.steps[p] # <<>> \/ Cardinality(Busy(st)) < st.workers

\* The closure of a probe: thread::sleep(Duration::from_millis(jitter)), then
\* lookup.to_socket_addrs(), then its DomainResult.  What it does next, after
\* the steps done.
ProbeNextLookupFirst(done) ==
    IF done = <<>> THEN "lookup" ELSE IF Len(done) = 1 THEN "sleep" ELSE "return"
ProbeNext(done) ==
    IF done = <<>> THEN "sleep" ELSE IF Len(done) = 1 THEN "lookup" ELSE "return"

\* The closure of probe p is inside lookup.to_socket_addrs().
InLookup(st, p) ==
    /\ st.slots[p] = Pending
    /\ st.steps[p] # <<>>
    /\ st.steps[p][Len(st.steps[p])].op = "lookup"

\* TOTAL_QUERIES - successful
DnsFailedMisread(n, successful) == DOMAINS_LEN - successful
DnsFailed(n, successful) == n - successful

\* Whether the batch fails because of its probes: it never does.
DnsBatchAborting(per_domain) ==
    IF \E i \in DOMAIN per_domain : ~per_domain[i].success THEN "LookupError" ELSE "Ok"
DnsBatchResult(per_domain) == "Ok"

\* The part of run after the parallel map has collected per_domain.
DnsCollect_run(cfg, n, per_domain, env) ==
    LET k == "dns_query_storm"
        successful == Successful(per_domain)
        failed == DnsFailed(n, successful)
    IN
    Out(DnsBatchResult(per_domain),
        <<ActionRecord(cfg, k, "completed", <<successful, failed>>, env.tel)>>,
        {}, ItemsWritten(env.det, env.at,
                         [i \in DOMAIN per_domain |-> ItemLine(cfg, k, per_domain[i])]),
        SummaryWritten(env.det, SummaryLine(cfg, k, <<n, successful, failed>>)))

----------------------------------------------------------------------------
(* The Simulation trait object: dispatch on the registered capability *)

\* The host outcomes a run of this kind may meet, every combination of them.
EnvAll(kind, full) ==
    CASE kind = "ransom_note" -> RansomNote_env
      [] kind = "create_proc" -> CreateProc_env
      [] kind = "registry_persistence" -> RegistryPersistence_env
      [] kind = "startup_exec" -> StartupExec_env
      [] kind = "minidump_proc" -> Minidump_env(full)
      [] kind = "enable_rdp" -> EnableRdp_env
      [] kind = "named_pipe_sim" -> NamedPipe_env(full)
      [] kind = "get_clipboard" -> Clipboard_env
      [] kind = "time_manipulation_sim" -> TimeManipulation_env(full)
      [] kind = "enable_ssh" -> EnableSsh_env(full)
      [] kind = "pwd_guessing" -> PwdGuessing_env(full)
      [] kind = "get_env_vars" -> EnvVars_env
      [] kind = "share_enum" -> ShareEnum_env
      [] kind = "discovery_sim" -> DiscoverySim_env
      [] kind = "dns_query_storm" -> DnsDry_env

\* One state of the telemetry directory per run: usable, and the ledger and the
\* detail streams are written, or not, and neither is.
OneTelemetryDir(env) == "det" \in DOMAIN env => env.det = (IF env.tel THEN "ok" ELSE "nodir")

\* The host outcomes a step draws from.  full = FALSE keeps one state of the
\* telemetry directory per run and draws the per-unit outcomes of the looping
\* modules from a few representative vectors.
EnvOf(kind, full) ==
    IF full THEN EnvAll(kind, full)
    ELSE {env \in EnvAll(kind, full) : OneTelemetryDir(env)}

\* sim.run(&self.config) for the runs that are one step.
Run(kind, cfg, env) ==
    CASE kind = "ransom_note" -> RansomNote_run(cfg, env)
      [] kind = "create_proc" -> CreateProc_run(cfg, env)
      [] kind = "registry_persistence" -> RegistryPersistence_run(cfg, env)
      [] kind = "startup_exec" -> StartupExec_run(cfg, env)
      [] kind = "minidump_proc" -> Minidump_run(cfg, env)
      [] kind = "enable_rdp" -> EnableRdp_run(cfg, env)
      [] kind = "named_pipe_sim" -> NamedPipe_run(cfg, env)
      [] kind = "get_clipboard" -> Clipboard_run(cfg, env)
      [] kind = "time_manipulation_sim" -> TimeManipulation_run(cfg, env)
      [] kind = "enable_ssh" -> EnableSsh_run(cfg, env)
      [] kind = "pwd_guessing" -> PwdGuessing_run(cfg, env)
      [] kind = "get_env_vars" -> EnvVars_run(cfg, env)
      [] kind = "share_enum" -> ShareEnum_run(cfg, env)
      [] kind = "discovery_sim" -> DiscoverySim_run(cfg, env)
      [] kind = "dns_query_storm" -> DryRunPropagating(cfg, kind, env)

----------------------------------------------------------------------------
(* core/runner.rs *)

\* No looping capability is being explored step by step.
NoFrame == [by |-> 0, kind |-> "none", i |-> 0, j |-> 0, n |-> 0, acc |-> <<>>,
            tail |-> <<>>, calls |-> <<>>, done |-> FALSE]

\* self.simulations.push(sim)
registerFront(sims, sim) == <<sim>> \o sims
register(sims, sim) == Append(sims, sim)

\* The `?` of run_all: an error of run ends the loop and is returned.
RunAllIgnoringErrors(res) == [phase |-> "running", result |-> "none"]
RunAllOnResult(res) ==
    IF res = "Ok" THEN [phase |-> "running", result |-> "none"]
    ELSE [phase |-> "returned", result |-> res]

\* The loop body of run_all is a call: the next iteration starts when
\* sim.run has returned.
NotJoined(running) == TRUE
Sequential(running) == running = 0

Tag(line, id) == [by |-> id] @@ line

\* OpenOptions::new().create(true).append(true).open(..) and writeln!: the
\* lines go after what the file holds.
TruncateAndWrite(file, lines) == lines
AppendLines(file, lines) == file \o lines

\* The appends a detail writer makes, in the order it makes them: the loop
\* over the itemized lines, then the summary line.
DetailOrderSummaryFirst(items, sums, id) ==
    [i \in DOMAIN sums |-> [stream |-> "summary", by |-> id]]
        \o [i \in DOMAIN items |-> [stream |-> "per_item", by |-> id]]
DetailOrder(items, sums, id) ==
    [i \in DOMAIN items |-> [stream |-> "per_item", by |-> id]]
        \o [i \in DOMAIN sums |-> [stream |-> "summary", by |-> id]]

\* The stored records among recs, as they are in the ledger file.
Stored(recs, id) ==
    LET keep == SelectSeq(recs, LAMBDA r : r.stored) IN
    [i \in DOMAIN keep |-> Tag(keep[i], id)]

\* The effect, on the files and on the histories, of a run that returned out.
Apply(sim, out) ==
    /\ ledger' = ledger \o Stored(out.recs, sim.id)
    /\ write_calls' = write_calls \o [i \in DOMAIN out.recs |-> Tag(out.recs[i], sim.id)]
    /\ per_item' = AppendLines(per_item, [i \in DOMAIN out.items |-> Tag(out.items[i], sim.id)])
    /\ summary' = AppendLines(summary, [i \in DOMAIN out.sums |-> Tag(out.sums[i], sim.id)])
    /\ detail_log' = detail_log \o DetailOrder(out.items, out.sums, sim.id)
    /\ effects' = effects \cup {<<sim.id, e>> : e \in out.effects}
    /\ returns' = Append(returns, [id |-> sim.id, kind |-> sim.kind, res |-> out.res,
                                   ledger_len |-> Len(ledger')])
    /\ phase' = RunAllOnResult(out.res).phase
    /\ result' = RunAllOnResult(out.res).result

(* main.rs *)

\* main has not returned yet.
Running == [code |-> -1, footer |-> FALSE]

\* Config::load().unwrap_or_default(): the Config main goes on with, the
\* loaded one or, when the load failed, the default one.
UnwrapOrDefault(loaded) ==
    [test_id : {t \in TestIds : (t = "T-1") <=> (loaded = "ok")}, dry_run : BOOLEAN]

\* runner.run_all()?; logger::summary(elapsed); Ok(()): an Err of run_all is
\* returned by main, which the runtime turns into exit code 1; otherwise the
\* footer is printed and the exit code is 0.
MainOutcomeDiscarding(res) == [code |-> 0, footer |-> TRUE]
MainOutcome(res) ==
    IF res = "Ok" THEN [code |-> 0, footer |-> TRUE] ELSE [code |-> 1, footer |-> FALSE]

Init ==
    /\ simulations = <<>>
    /\ load \in {"ok", "err"}
    /\ config \in UnwrapOrDefault(load)
    /\ phase = "setup"
    /\ cursor = 0
    /\ active = 0
    /\ result = "none"
    /\ ledger = <<>>
    /\ per_item = <<>>
    /\ summary = <<>>
    /\ storm = NoStorm
    /\ nq = RunnerQueries
    /\ reg_calls = <<>>
    /\ invoked = <<>>
    /\ returns = <<>>
    /\ write_calls = <<>>
    /\ effects = {}
    /\ storms = <<>>
    /\ detail_log = <<>>
    /\ frame = NoFrame
    /\ exit = Running

\* runner.register(Box::new(..)) in main
Register(kind) ==
    /\ phase = "setup"
    /\ Len(reg_calls) < MaxSims
    /\ simulations' = register(simulations, [id |-> Len(reg_calls) + 1, kind |-> kind])
    /\ reg_calls' = Append(reg_calls, kind)
    /\ UNCHANGED <<frame, config, phase, cursor, active, result, ledger, per_item, summary,
                   storm, nq, invoked, returns, write_calls, effects, storms,
                   detail_log, load, exit>>

\* main calls runner.run_all()
RunAllBegin ==
    /\ phase = "setup"
    /\ phase' = "running"
    /\ UNCHANGED <<frame, simulations, config, cursor, active, result, ledger, per_item,
                   summary, storm, nq, reg_calls, invoked, returns, write_calls,
                   effects, storms,
                   detail_log, load, exit>>

\* &self.config: the Config the run of capability id is handed, a shared
\* reference to the one Runner::new was given.
SharedConfigRebuilt(cfg, id) == [cfg EXCEPT !.dry_run = IF id > 1 THEN FALSE ELSE @]
SharedConfig(cfg, id) == cfg

IsStorm(sim) == sim.kind = "dns_query_storm" /\ ~SharedConfig(config, sim.id).dry_run

\* One iteration of the loop of run_all whose sim.run is a single step.
Invoke(full) ==
    /\ phase = "running"
    /\ Sequential(active)
    /\ cursor < Len(simulations)
    /\ LET sim == simulations[cursor + 1] IN
        /\ ~IsStorm(sim)
        /\ cursor' = cursor + 1
        /\ invoked' = Append(invoked, [id |-> sim.id, kind |-> sim.kind,
                                       ledger_len |-> Len(ledger)])
        /\ \E env \in EnvOf(sim.kind, full) : Apply(sim, Run(sim.kind, SharedConfig(config, sim.id), env))
    /\ UNCHANGED <<frame, simulations, config, active, storm, nq, reg_calls, storms,
                   load, exit>>

\* An iteration of run_all enters the run of the DNS storm, which starts its
\* TOTAL_QUERIES probes on the rayon pool.
StormBegin ==
    /\ phase = "running"
    /\ Sequential(active)
    /\ cursor < Len(simulations)
    /\ storm = NoStorm
    /\ LET sim == simulations[cursor + 1] IN
        /\ IsStorm(sim)
        /\ cursor' = cursor + 1
        /\ active' = sim.id
        /\ invoked' = Append(invoked, [id |-> sim.id, kind |-> sim.kind,
                                       ledger_len |-> Len(ledger)])
        /\ \E workers \in PoolSizes(nq) :
              storm' = [by |-> sim.id, slots |-> [p \in 1..nq |-> Pending],
                        jitter |-> [p \in 1..nq |-> 0], order |-> <<>>,
                        steps |-> [p \in 1..nq |-> <<>>], workers |-> workers]
    /\ UNCHANGED <<frame, simulations, config, phase, result, ledger, per_item, summary, nq,
                   reg_calls, returns, write_calls, effects, storms,
                   detail_log, load, exit>>

\* What a step of the closure of a probe leaves alone.
ProbeStepUnchanged ==
    UNCHANGED <<frame, simulations, config, phase, cursor, active, result, ledger,
                per_item, summary, nq, reg_calls, invoked, returns, write_calls, storms,
                detail_log, load, exit>>

\* The closure of probe p draws its jitter and sleeps for it, once a thread
\* of the pool has taken the probe; the closures of the other probes that
\* have a thread run meanwhile.
ProbeSleep(p) ==
    /\ storm # NoStorm
    /\ p \in DOMAIN storm.slots
    /\ storm.slots[p] = Pending
    /\ ProbeNext(storm.steps[p]) = "sleep"
    /\ CanRun(storm, p)
    /\ \E jitter \in JitterDraws :
          storm' = [storm EXCEPT !.jitter[p] = jitter,
                                 !.steps[p] = Append(@, [op |-> "sleep", ms |-> jitter])]
    /\ UNCHANGED effects
    /\ ProbeStepUnchanged

\* The closure of probe p enters lookup.to_socket_addrs().
ProbeLookup(p) ==
    /\ storm # NoStorm
    /\ p \in DOMAIN storm.slots
    /\ storm.slots[p] = Pending
    /\ ProbeNext(storm.steps[p]) = "lookup"
    /\ CanRun(storm, p)
    /\ storm' = [storm EXCEPT !.steps[p] = Append(@, [op |-> "lookup", ms |-> 0])]
    /\ effects' = effects \cup {<<storm.by, "dns_lookup">>}
    /\ ProbeStepUnchanged

\* Probe p finishes: its lookup returns and the closure of the parallel map
\* returns its DomainResult.
StormProbe(p) ==
    /\ storm # NoStorm
    /\ p \in DOMAIN storm.slots
    /\ storm.slots[p] = Pending
    /\ ProbeNext(storm.steps[p]) = "return"
    /\ \E lookup \in Lookups :
          LET r == DomainResult(p, lookup)
              own == ProbeAppends(Tag(ItemLine(SharedConfig(config, storm.by),
                                               "dns_query_storm", r), storm.by))
          IN
          /\ storm' = [storm EXCEPT !.slots[p] = r, !.order = Append(@, p)]
          /\ per_item' = AppendLines(per_item, own)
          /\ detail_log' = detail_log
                  \o [i \in DOMAIN own |-> [stream |-> "per_item", by |-> storm.by]]
    /\ UNCHANGED <<frame, simulations, config, phase, cursor, active, result, ledger,
                   summary, nq, reg_calls, invoked, returns, write_calls, storms,
                   effects, load, exit>>

\* The lookup that probe p is inside never returns.
ProbeBlocks(p) ==
    /\ storm # NoStorm
    /\ p \in DOMAIN storm.slots
    /\ InLookup(storm, p)
    /\ storm' = [storm EXCEPT !.slots[p] = Blocked]
    /\ UNCHANGED effects
    /\ ProbeStepUnchanged

\* collect() has every result: the run counts, writes its telemetry and returns.
StormCollect ==
    /\ storm # NoStorm
    /\ Collected(storm.slots)
    /\ \E env \in {e \in DnsCollect_env(nq) : nq > RunnerQueries \/ OneTelemetryDir(e)} :
          LET out == DnsCollect_run(SharedConfig(config, storm.by), nq, storm.slots, env) IN
          /\ Apply([id |-> storm.by, kind |-> "dns_query_storm"], out)
          /\ storms' = Append(storms, [by |-> storm.by, n |-> nq,
                                       per_domain |-> storm.slots,
                                       res |-> out.res, recs |-> out.recs,
                                       det |-> env.det])
    /\ storm' = NoStorm
    /\ active' = 0
    /\ UNCHANGED <<frame, simulations, config, cursor, nq, reg_calls, invoked,
                   load, exit>>

\* The loop of run_all is exhausted: Ok(())
RunAllEnd ==
    /\ phase = "running"
    /\ Sequential(active)
    /\ cursor = Len(simulations)
    /\ phase' = "returned"
    /\ result' = "Ok"
    /\ UNCHANGED <<frame, simulations, config, cursor, active, ledger, per_item, summary,
                   storm, nq, reg_calls, invoked, returns, write_calls, effects, storms,
                   detail_log, load, exit>>

\* main returns after run_all has.
MainExit ==
    /\ phase = "returned"
    /\ exit = Running
    /\ exit' = MainOutcome(result)
    /\ UNCHANGED <<frame, simulations, config, phase, cursor, active, result, ledger, per_item,
                   summary, storm, nq, reg_calls, invoked, returns, write_calls, effects,
                   storms, detail_log, load>>

Next ==
    \/ \E kind \in Kinds : Register(kind)
    \/ RunAllBegin
    \/ Invoke(FALSE)
    \/ StormBegin
    \/ \E p \in 1..nq : ProbeSleep(p)
    \/ \E p \in 1..nq : ProbeLookup(p)
    \/ \E p \in 1..nq : StormProbe(p)
    \/ StormCollect
    \/ RunAllEnd
    \/ MainExit

Spec == Init /\ [][Next]_vars

----------------------------------------------------------------------------
(* A storm-style module alone under run_all, with every outcome vector *)

StormKinds == {"dns_query_storm", "named_pipe_sim"}

InitStorm ==
    /\ \E kind \in StormKinds :
          /\ simulations = <<[id |-> 1, kind |-> kind]>>
          /\ reg_calls = <<kind>>
          /\ nq \in IF kind = "dns_query_storm" THEN 1..MaxQueries ELSE {1}
    /\ config \in {c \in UnwrapOrDefault("ok") : ~c.dry_run}
    /\ phase = "running"
    /\ cursor = 0
    /\ active = 0
    /\ result = "none"
    /\ ledger = <<>>
    /\ per_item = <<>>
    /\ summary = <<>>
    /\ storm = NoStorm
    /\ invoked = <<>>
    /\ returns = <<>>
    /\ write_calls = <<>>
    /\ effects = {}
    /\ storms = <<>>
    /\ detail_log = <<>>
    /\ load = "ok"
    /\ frame = NoFrame
    /\ exit = Running

NextStorm ==
    \/ Invoke(TRUE)
    \/ StormBegin
    \/ \E p \in 1..nq : ProbeSleep(p)
    \/ \E p \in 1..nq : ProbeLookup(p)
    \/ \E p \in 1..nq : StormProbe(p)
    \/ StormCollect
    \/ RunAllEnd

SpecStorm == InitStorm /\ [][NextStorm]_vars

\* The same with lookups that may never return.  The rayon pool runs every
\* closure it was given and the run goes on as soon as collect() has all of
\* the results: a probe that can finish does, and so does the collection.
NextHang ==
    \/ NextStorm
    \/ \E p \in 1..nq : ProbeBlocks(p)

SpecHang ==
    /\ InitStorm /\ [][NextHang]_vars
    /\ WF_vars(StormBegin)
    /\ \A p \in 1..MaxQueries :
          WF_vars(ProbeSleep(p)) /\ WF_vars(ProbeLookup(p)) /\ WF_vars(StormProbe(p))
    /\ WF_vars(StormCollect)

----------------------------------------------------------------------------
(* The targets of a storm: (0..TOTAL_QUERIES).map(|i| DOMAINS[i % DOMAINS.len()]) *)

\* The probe descriptor with 0-based index i, before its lookup.
Issued(i) == [domain |-> DomainOf(i), success |-> FALSE, ip |-> "pending"]

InitTargets ==
    /\ simulations = <<[id |-> 1, kind |-> "dns_query_storm"]>>
    /\ reg_calls = <<"dns_query_storm">>
    /\ nq \in 1..TOTAL_QUERIES
    /\ load = "ok"
    /\ config \in {c \in UnwrapOrDefault("ok") : ~c.dry_run}
    /\ phase = "running"
    /\ cursor = 1
    /\ active = 1
    /\ result = "none"
    /\ ledger = <<>>
    /\ per_item = <<>>
    /\ summary = <<>>
    /\ storm = [by |-> 1, slots |-> <<>>, jitter |-> <<>>, order |-> <<>>,
                steps |-> <<>>, workers |-> 1]
    /\ invoked = <<[id |-> 1, kind |-> "dns_query_storm", ledger_len |-> 0]>>
    /\ returns = <<>>
    /\ write_calls = <<>>
    /\ effects = {}
    /\ storms = <<>>
    /\ detail_log = <<>>
    /\ frame = NoFrame
    /\ exit = Running

\* The range 0..nq hands its next index to the closure, which picks its domain.
IssueProbe ==
    /\ Len(storm.slots) < nq
    /\ storm' = [storm EXCEPT !.slots = Append(@, Issued(Len(@)))]
    /\ UNCHANGED <<frame, simulations, config, phase, cursor, active, result, ledger, per_item,
                   summary, nq, reg_calls, invoked, returns, write_calls, effects,
                   storms, detail_log, load, exit>>

NextTargets == IssueProbe

SpecTargets == InitTargets /\ [][NextTargets]_vars

----------------------------------------------------------------------------
(* A looping capability alone under run_all, one loop iteration per step *)

LoopKinds == {"time_manipulation_sim", "named_pipe_sim", "minidump_proc",
              "pwd_guessing", "enable_ssh"}

\* A host call a run makes: op on its unit of work (and sub-unit); h names the
\* handle the call yields when it succeeds, or the handle CloseHandle is given.
Call(op, unit, sub, h, ok) == [op |-> op, unit |-> unit, sub |-> sub, h |-> h, ok |-> ok]

\* The handles the calls opened and have not closed: a successful call with
\* a handle name opens it, CloseHandle closes the one it is given.
RECURSIVE OpenHandles(_)
OpenHandles(calls) ==
    IF calls = <<>> THEN {}
    ELSE LET c == calls[Len(calls)]
             before == OpenHandles(SubSeq(calls, 1, Len(calls) - 1))
         IN
         IF c.op = "CloseHandle" THEN before \ {<<c.h, c.unit, c.sub>>}
         ELSE IF c.ok /\ c.h # "" THEN before \cup {<<c.h, c.unit, c.sub>>}
         ELSE before

\* The host operation, as the run's result names it, that a call performs.
CallEffect(c) ==
    CASE c.op = "SetSystemTime" ->
            IF c.unit = 0 THEN {"restore_system_time"} ELSE {"set_system_time"}
      [] c.op = "CreateNamedPipeW" -> {"named_pipe"}
      [] c.op = "CreateToolhelp32Snapshot" -> {"process_snapshot"}
      [] c.op = "create_dir_all" -> IF c.ok THEN {"minidump_dir"} ELSE {}
      [] c.op = "File::create" -> IF c.ok THEN {"dump_file"} ELSE {}
      [] c.op = "net localgroup" -> {"net_localgroup"}
      [] c.op = "LogonUserW" -> {"logon_attempts"}
      [] c.op = "powershell" -> {"powershell_commands"}
      [] c.op = "TcpStream::connect" -> {"port_check"}
      [] OTHER -> {}

\* The history of host operations once the run of capability id has made calls.
Performed(fx, id, calls) ==
    fx \cup {<<id, e>> : e \in UNION {CallEffect(calls[k]) : k \in DOMAIN calls}}

\* The calls made for unit i of the loop.
CallsFor(calls, i) == SelectSeq(calls, LAMBDA c : c.unit = i)

(* named_pipe_sim.rs: the body of `for &pipe_name in PIPE_NAMES` *)

\* CreateNamedPipeW; `continue` when it failed; CreateFileW;
\* CloseHandle(hpipe); if ok_client { CloseHandle(hclient) }.
PipeCallsKeepingServer(i, outcome) ==
    IF outcome = "nosrv" THEN <<Call("CreateNamedPipeW", i, 0, "server", FALSE)>>
    ELSE <<Call("CreateNamedPipeW", i, 0, "server", TRUE),
           Call("CreateFileW", i, 0, "client", outcome = "ok")>>
         \o (IF outcome = "ok" THEN <<Call("CloseHandle", i, 0, "server", TRUE),
                                      Call("CloseHandle", i, 0, "client", TRUE)>>
             ELSE <<>>)
PipeCalls(i, outcome) ==
    IF outcome = "nosrv" THEN <<Call("CreateNamedPipeW", i, 0, "server", FALSE)>>
    ELSE <<Call("CreateNamedPipeW", i, 0, "server", TRUE),
           Call("CreateFileW", i, 0, "client", outcome = "ok"),
           Call("CloseHandle", i, 0, "server", TRUE)>>
         \o (IF outcome = "ok" THEN <<Call("CloseHandle", i, 0, "client", TRUE)>>
             ELSE <<>>)

(* minidump_proc.rs: the body of `for &pname in &processes` *)

\* Per target: the snapshot cannot be taken; the process is not in it;
\* OpenProcess fails; File::create fails; MiniDumpWriteDump fails; the dump
\* is written.
DumpOutcomes == {"nosnap", "notfound", "open_err", "create_err", "dump_err", "ok"}

find_pid_by_name(i, outcome) ==
    IF outcome = "nosnap"
    THEN <<Call("CreateToolhelp32Snapshot", i, 0, "snapshot", FALSE)>>
    ELSE <<Call("CreateToolhelp32Snapshot", i, 0, "snapshot", TRUE),
           Call("CloseHandle", i, 0, "snapshot", TRUE)>>

\* create_dir_all(out_dir).ok(), which succeeds or fails (dir_ok) and whose
\* result is dropped; OpenProcess(..)?; File::create(..).map_err(..)?;
\* MiniDumpWriteDump(..)?; CloseHandle(process_handle); Ok(full)
dump_process(i, outcome, dir_ok) ==
    <<Call("create_dir_all", i, 0, "", dir_ok)>> \o
    (IF outcome = "open_err" THEN <<Call("OpenProcess", i, 0, "process", FALSE)>>
     ELSE IF outcome = "create_err"
     THEN <<Call("OpenProcess", i, 0, "process", TRUE),
            Call("File::create", i, 0, "", FALSE)>>
     ELSE IF outcome = "dump_err"
     THEN <<Call("OpenProcess", i, 0, "process", TRUE),
            Call("File::create", i, 0, "", TRUE),
            Call("MiniDumpWriteDump", i, 0, "", FALSE)>>
     ELSE <<Call("OpenProcess", i, 0, "process", TRUE),
            Call("File::create", i, 0, "", TRUE),
            Call("MiniDumpWriteDump", i, 0, "", TRUE),
            Call("CloseHandle", i, 0, "process", TRUE)>>)

\* match find_pid_by_name(pname) { Some(pid) => dump_process(..), None => .. }
DumpCalls(i, outcome, dir_ok) ==
    find_pid_by_name(i, outcome)
        \o (IF outcome \in {"nosnap", "notfound"} THEN <<>>
            ELSE dump_process(i, outcome, dir_ok))

\* What create_dir_all can give inside dump_process, for the targets that
\* get there.
DirOutcomes(outcome) == IF outcome \in {"nosnap", "notfound"} THEN {TRUE} ELSE BOOLEAN

\* The targets so far whose lookup was not a plain miss.
Found(acc) == Cardinality({i \in DOMAIN acc : acc[i] # "notfound"})

(* pwd_guessing.rs: the body of the loops over admins and test_pwds *)

\* What LogonUserW can give: zero; nonzero and a token; nonzero with the
\* token left null.
LogonOutcomes == {"fail", "ok", "ok_null"}

\* try_logon: LogonUserW, success its result != 0, and
\* if success && !token.is_null() { CloseHandle(token) }.
try_logon(user, pwd, outcome) ==
    <<Call("LogonUserW", user, pwd, IF outcome = "ok" THEN "token" ELSE "",
           outcome # "fail")>>
        \o (IF outcome = "ok" THEN <<Call("CloseHandle", user, pwd, "token", TRUE)>>
            ELSE <<>>)

AttemptResult(user, pwd, success) ==
    [account |-> user, password_tested |-> pwd, success |-> success]

\* The loop position after the attempt at (i + 1, j + 1): the next password
\* of the same account or, after the last one, the next account.  The loop
\* has no break.
NextPairStoppingOnSuccess(i, j, success) ==
    IF success THEN <<i + 1, 0>>
    ELSE IF j + 1 < NUM_PWDS THEN <<i, j + 1>> ELSE <<i + 1, 0>>
NextPair(i, j, success) == IF j + 1 < NUM_PWDS THEN <<i, j + 1>> ELSE <<i + 1, 0>>

Hits(acc) == Cardinality({k \in DOMAIN acc : acc[k].success})

(* enable_ssh.rs: the body of `for cmd in &commands` *)

\* if let Err(e) = run_ps(cmd) { logger::warn(..) }: the number of commands
\* taken after command i + 1 ended with ok.
AfterCommandBailing(i, ok) == IF ok THEN i + 1 ELSE NUM_SSH_CMDS
AfterCommand(i, ok) == i + 1

(* time_manipulation_sim.rs: what the loop counted *)

TimeSuccessful(acc) == Cardinality({i \in DOMAIN acc : acc[i] = "success"})

(* The run before its loop *)

\* What a run does before its loop: it returns (the dry-run record, or an
\* error of its preparation) or it goes on to the loop, over n accounts for
\* pwd_guessing.
Prologue(kind, cfg) ==
    IF cfg.dry_run
    THEN {[enter |-> FALSE, n |-> 0, calls |-> <<>>,
           out |-> Run(kind, cfg, [tel |-> tel])] : tel \in BOOLEAN}
    ELSE IF kind = "pwd_guessing"
    THEN {[enter |-> FALSE, n |-> 0,
           calls |-> <<Call("net localgroup", 0, 0, "", FALSE)>>,
           out |-> PwdGuessing_run(cfg, [enum_ok |-> FALSE, admins |-> 0,
                                         det |-> "ok", tel |-> tel])] : tel \in BOOLEAN}
         \cup {[enter |-> TRUE, n |-> n,
                calls |-> <<Call("net localgroup", 0, 0, "", TRUE)>>,
                out |-> Out("Ok", <<>>, {}, <<>>, <<>>)] : n \in 0..MaxAccounts}
    ELSE IF kind = "minidump_proc"
    THEN {[enter |-> FALSE, n |-> 0, calls |-> <<>>,
           out |-> Minidump_run(cfg, [out_dir |-> FALSE, mkdir_ok |-> FALSE,
                                      created |-> {}, dumped |-> {}, tel |-> TRUE])],
          [enter |-> FALSE, n |-> 0,
           calls |-> <<Call("create_dir_all", 0, 0, "", FALSE)>>,
           out |-> Minidump_run(cfg, [out_dir |-> TRUE, mkdir_ok |-> FALSE,
                                      created |-> {}, dumped |-> {}, tel |-> TRUE])],
          [enter |-> TRUE, n |-> 0,
           calls |-> <<Call("create_dir_all", 0, 0, "", TRUE)>>,
           out |-> Out("Ok", <<>>, {}, <<>>, <<>>)]}
    ELSE {[enter |-> TRUE, n |-> 0, calls |-> <<>>,
           out |-> Out("Ok", <<>>, {}, <<>>, <<>>)]}

\* The host outcomes the loop and what follows it met, as the run's env.
FrameEnv(f, det, tel, at) ==
    CASE f.kind = "time_manipulation_sim" ->
            [set_ok |-> {i \in DOMAIN f.acc : f.acc[i] = "success"},
             restore_ok |-> (f.tail = <<TRUE>>), det |-> det, tel |-> tel]
      [] f.kind = "named_pipe_sim" ->
            [pipes |-> f.acc, det |-> det, tel |-> tel, at |-> at]
      [] f.kind = "minidump_proc" ->
            [out_dir |-> TRUE, mkdir_ok |-> TRUE,
             created |-> {i \in DOMAIN f.acc : f.acc[i] \in {"dump_err", "ok"}},
             dumped |-> {i \in DOMAIN f.acc : f.acc[i] = "ok"}, tel |-> tel]
      [] f.kind = "pwd_guessing" ->
            [enum_ok |-> TRUE, admins |-> f.n, det |-> det, tel |-> tel]
      [] f.kind = "enable_ssh" ->
            [cmds_ok |-> {i \in DOMAIN f.acc : f.acc[i]},
             port_ok |-> (f.tail = <<TRUE>>), det |-> det, tel |-> tel]

\* The loop, and what the run does between its loop and its telemetry, is over.
Finished(f) ==
    CASE f.kind = "time_manipulation_sim" ->
            f.i = NUM_OFFSETS /\ (RestoreDue(TimeSuccessful(f.acc)) => f.tail # <<>>)
      [] f.kind = "named_pipe_sim" -> f.i = NUM_PIPES
      [] f.kind = "minidump_proc" -> f.i = NUM_TARGETS
      [] f.kind = "pwd_guessing" -> f.i >= f.n
      [] f.kind = "enable_ssh" -> f.i = NUM_SSH_CMDS /\ f.tail # <<>>

InLoop(kind) == frame.kind = kind /\ ~frame.done

InitLoops ==
    /\ \E kind \in LoopKinds :
          /\ simulations = <<[id |-> 1, kind |-> kind]>>
          /\ reg_calls = <<kind>>
    /\ nq = 1
    /\ load = "ok"
    /\ config \in UnwrapOrDefault("ok")
    /\ phase = "running"
    /\ cursor = 0
    /\ active = 0
    /\ result = "none"
    /\ ledger = <<>>
    /\ per_item = <<>>
    /\ summary = <<>>
    /\ storm = NoStorm
    /\ invoked = <<>>
    /\ returns = <<>>
    /\ write_calls = <<>>
    /\ effects = {}
    /\ storms = <<>>
    /\ detail_log = <<>>
    /\ frame = NoFrame
    /\ exit = Running

\* An iteration of run_all enters sim.run, which returns before its loop or
\* reaches it.
LoopEnter ==
    /\ phase = "running"
    /\ Sequential(active)
    /\ cursor < Len(simulations)
    /\ frame = NoFrame
    /\ LET sim == simulations[cursor + 1] IN
        /\ sim.kind \in LoopKinds
        /\ cursor' = cursor + 1
        /\ invoked' = Append(invoked, [id |-> sim.id, kind |-> sim.kind,
                                       ledger_len |-> Len(ledger)])
        /\ \E pre \in Prologue(sim.kind, SharedConfig(config, sim.id)) :
              /\ frame' = [NoFrame EXCEPT !.by = sim.id, !.kind = sim.kind,
                                          !.n = pre.n, !.calls = pre.calls,
                                          !.done = ~pre.enter]
              /\ IF pre.enter
                 THEN /\ active' = sim.id
                      /\ effects' = Performed(effects, sim.id, pre.calls)
                      /\ UNCHANGED <<ledger, write_calls, per_item, summary, detail_log,
                                     returns, phase, result>>
                 ELSE /\ active' = 0
                      /\ Apply(sim, pre.out)
    /\ UNCHANGED <<simulations, config, storm, nq, reg_calls, storms, load, exit>>

\* A step of a run in or after its loop: it makes calls, which the frame
\* (f: the frame with the step's locals) and the history of host operations
\* take, and leaves the rest alone.
LoopStep(f, calls) ==
    /\ frame' = [f EXCEPT !.calls = @ \o calls]
    /\ effects' = Performed(effects, f.by, calls)
    /\ UNCHANGED <<simulations, config, phase, cursor, active, result, ledger, per_item,
                   summary, storm, nq, reg_calls, invoked, returns, write_calls,
                   storms, detail_log, load, exit>>

\* time_manipulation_sim: one iteration of `for offset in offsets`.
TimeAttempt ==
    /\ InLoop("time_manipulation_sim")
    /\ frame.i < NUM_OFFSETS
    /\ \E ok \in BOOLEAN :
          LoopStep([frame EXCEPT !.i = @ + 1, !.acc = Append(@, TimeAttemptResult(ok))],
                   <<Call("SetSystemTime", frame.i + 1, 0, "", ok)>>)

\* time_manipulation_sim: the original time is set back, after the loop.
TimeRestore ==
    /\ InLoop("time_manipulation_sim")
    /\ frame.i = NUM_OFFSETS
    /\ frame.tail = <<>>
    /\ RestoreDue(TimeSuccessful(frame.acc))
    /\ \E ok \in BOOLEAN :
          LoopStep([frame EXCEPT !.tail = <<ok>>],
                   <<Call("SetSystemTime", 0, 0, "", ok)>>)

\* named_pipe_sim: one iteration of `for &pipe_name in PIPE_NAMES`.
PipeStep ==
    /\ InLoop("named_pipe_sim")
    /\ frame.i < NUM_PIPES
    /\ \E outcome \in PipeOutcomes :
          LoopStep([frame EXCEPT !.i = @ + 1, !.acc = Append(@, outcome)],
                   PipeCalls(frame.i + 1, outcome))

\* minidump_proc: one iteration of `for &pname in &processes`.
DumpStep ==
    /\ InLoop("minidump_proc")
    /\ frame.i < NUM_TARGETS
    /\ \E outcome \in DumpOutcomes :
          /\ outcome # "notfound" => Found(frame.acc) < MaxFound
          /\ \E dir_ok \in DirOutcomes(outcome) :
                LoopStep([frame EXCEPT !.i = @ + 1, !.acc = Append(@, outcome)],
                         DumpCalls(frame.i + 1, outcome, dir_ok))

\* pwd_guessing: one iteration of `for pwd in &test_pwds`, inside `for user in &admins`.
LogonStep ==
    /\ InLoop("pwd_guessing")
    /\ frame.i < frame.n
    /\ \E outcome \in LogonOutcomes :
          LET success == outcome # "fail" IN
          /\ success => Hits(frame.acc) < MaxHits
          /\ LoopStep([frame EXCEPT
                          !.i = NextPair(frame.i, frame.j, success)[1],
                          !.j = NextPair(frame.i, frame.j, success)[2],
                          !.acc = Append(@, AttemptResult(frame.i + 1, frame.j + 1,
                                                          success))],
                      try_logon(frame.i + 1, frame.j + 1, outcome))

\* enable_ssh: one iteration of `for cmd in &commands`.
SshCommand ==
    /\ InLoop("enable_ssh")
    /\ frame.i < NUM_SSH_CMDS
    /\ \E ok \in BOOLEAN :
          LoopStep([frame EXCEPT !.i = AfterCommand(@, ok), !.acc = Append(@, ok)],
                   <<Call("powershell", frame.i + 1, 0, "", ok)>>)

\* enable_ssh: TcpStream::connect("127.0.0.1:22"), after the loop.
SshPortCheck ==
    /\ InLoop("enable_ssh")
    /\ frame.i = NUM_SSH_CMDS
    /\ frame.tail = <<>>
    /\ \E ok \in BOOLEAN :
          LoopStep([frame EXCEPT !.tail = <<ok>>],
                   <<Call("TcpStream::connect", 0, 0, "", ok)>>)

\* The run writes its telemetry and returns.
LoopReturn ==
    /\ frame.kind \in LoopKinds
    /\ ~frame.done
    /\ Finished(frame)
    /\ \E det \in DetOutcomes, tel \in BOOLEAN :
          \E at \in IF frame.kind = "named_pipe_sim"
                    THEN FailingLines(det, PipeTotal(frame.acc)) ELSE {0} :
              Apply([id |-> frame.by, kind |-> frame.kind],
                    Run(frame.kind, SharedConfig(config, frame.by),
                        FrameEnv(frame, det, tel, at)))
    /\ frame' = [frame EXCEPT !.done = TRUE]
    /\ active' = 0
    /\ UNCHANGED <<simulations, config, cursor, storm, nq, reg_calls, invoked, storms,
                   load, exit>>

NextLoops ==
    \/ LoopEnter
    \/ TimeAttempt
    \/ TimeRestore
    \/ PipeStep
    \/ DumpStep
    \/ LogonStep
    \/ SshCommand
    \/ SshPortCheck
    \/ LoopReturn
    \/ RunAllEnd

SpecLoops == InitLoops /\ [][NextLoops]_vars

----------------------------------------------------------------------------
(* Properties *)

\* The write_action_record calls made by the run of capability id.
CallsBy(id) == SelectSeq(write_calls, LAMBDA w : w.by = id)

Failed(r) == r.res # "Ok"

\* C1: run_all invokes the registered capabilities in the order of the
\* register calls, none twice and none skipped: the i-th invocation is the
\* capability of the i-th register call, and a run_all in which no run failed
\* has invoked every one of them.
C1_RegistrationOrder ==
    /\ Len(invoked) <= Len(reg_calls)
    /\ \A i \in DOMAIN invoked : invoked[i].id = i /\ invoked[i].kind = reg_calls[i]
    /\ (phase = "returned" /\ \A i \in DOMAIN returns : ~Failed(returns[i]))
          => Len(invoked) = Len(reg_calls)

C1_Witness ==
    /\ phase = "returned" /\ result = "Ok"
    /\ Len(invoked) = 2
    /\ reg_calls[1] # reg_calls[2]

\* C2: a run that returns an error is the last one run_all invokes, run_all
\* returns that very error, and what the earlier runs stored stays stored.
C2_FirstErrorStops ==
    /\ \A i \in DOMAIN returns :
          Failed(returns[i]) =>
             /\ i = Len(returns)
             /\ phase = "returned"
             /\ result = returns[i].res
             /\ Len(invoked) = i
             /\ cursor = i
    /\ (phase = "returned" /\ result # "Ok") =>
          returns # <<>> /\ returns[Len(returns)].res = result
    /\ ledger = SelectSeq(write_calls, LAMBDA w : w.stored)

C2_Witness ==
    /\ phase = "returned" /\ result # "Ok"
    /\ Len(simulations) = 2 /\ Len(invoked) = 1
    /\ Len(ledger) = 1 /\ ledger[1].status = "failed"

\* C3: every run that returned has called write_action_record exactly once.
C3_OneRecordPerRun ==
    \A i \in DOMAIN returns : Len(CallsBy(returns[i].id)) = 1

\* C4: under dry_run no host operation is performed, no detail stream is
\* written, and every record a run writes has status dry-run.
C4_DryRunSafe ==
    config.dry_run =>
        /\ effects = {}
        /\ storm = NoStorm
        /\ per_item = <<>> /\ summary = <<>>
        /\ \A i \in DOMAIN write_calls : write_calls[i].status = "dry-run"

C4_Witness ==
    /\ config.dry_run
    /\ phase = "returned" /\ result = "Ok"
    /\ Len(write_calls) = 2
    /\ \E i \in DOMAIN ledger : ledger[i].action = "ransom_note"

\* C5: a run that returned an error has called write_action_record with a
\* failed or partial record.
C5_ErrorHasRecord ==
    \A i \in DOMAIN returns :
        Failed(returns[i]) =>
            \E w \in DOMAIN write_calls :
                /\ write_calls[w].by = returns[i].id
                /\ write_calls[w].status \in {"failed", "partial"}

\* C6: no run returns the error of a telemetry write.
C6_TelemetryNeverRethrown ==
    \A i \in DOMAIN returns : returns[i].res # "TelemetryError"

\* C7: when run_all has returned the error of the k-th capability, there are
\* exactly k records: completed or written for the first k - 1, failed for
\* the k-th.
C7_LedgerAfterFailure ==
    (phase = "returned" /\ result # "Ok") =>
        LET k == Len(returns) IN
        /\ Len(write_calls) = k
        /\ \A i \in 1..k :
              /\ write_calls[i].by = returns[i].id
              /\ i < k => write_calls[i].status \in {"completed", "written"}
              /\ i = k => write_calls[i].status = "failed"

\* C8: the records of a capability are all in the ledger (and in the detail
\* streams) before the next capability's run begins: the files are ordered by
\* capability, and when a failure is returned the records stored by the
\* earlier capabilities are there.
C8_CrossCapabilityOrder ==
    /\ \A i, j \in DOMAIN ledger : i < j => ledger[i].by <= ledger[j].by
    /\ \A i, j \in DOMAIN per_item : i < j => per_item[i].by <= per_item[j].by
    /\ \A i, j \in DOMAIN summary : i < j => summary[i].by <= summary[j].by
    /\ \A j \in DOMAIN invoked :
          \A w \in DOMAIN write_calls :
              (write_calls[w].by < invoked[j].id /\ write_calls[w].stored) =>
                  \E k \in 1..invoked[j].ledger_len : ledger[k] = write_calls[w]

C8_Witness ==
    /\ phase = "returned" /\ result # "Ok"
    /\ Len(returns) = 2
    /\ invoked[2].ledger_len = 1
    /\ Len(ledger) = 2 /\ ledger[1].by = 1 /\ ledger[2].by = 2

\* C9: the counts of every storm summary add up to its total, neither is
\* negative, and a DNS storm's total is the number of probes it ran.
C9_CountsAddUp ==
    /\ \A i \in DOMAIN summary :
          summary[i].module \in StormKinds =>
              LET d == summary[i].data IN
              d[2] + d[3] = d[1] /\ d[2] >= 0 /\ d[3] >= 0
    /\ \A i \in DOMAIN write_calls :
          write_calls[i].action \in {ActionLabel(k) : k \in StormKinds} =>
              LET d == write_calls[i].details IN d[1] >= 0 /\ d[2] >= 0
    /\ \A i \in DOMAIN storms :
          LET st == storms[i]
              d == st.recs[1].details
          IN  /\ Len(st.per_domain) = st.n
              /\ d[1] = Successful(st.per_domain)
              /\ d[1] + d[2] = st.n

C9_Witness ==
    \E i \in DOMAIN summary :
        /\ summary[i].module = "dns_query_storm"
        /\ summary[i].data[1] >= 3
        /\ summary[i].data[2] > 0 /\ summary[i].data[3] > 0

\* C10: a probe that fails leaves one result with success false and no
\* address, every probe of the storm has its result when the storm is
\* collected, and the storm returns Ok with one completed record whatever
\* the number of failed probes.
C10_ProbeFailureIsLocal ==
    /\ \A p \in DOMAIN storm.slots :
          LET r == storm.slots[p] IN
          /\ (r # Pending) <=> (Cardinality({k \in DOMAIN storm.order : storm.order[k] = p}) = 1)
          /\ (r # Pending /\ ~r.success) => r.ip = "none"
    /\ \A i \in DOMAIN storms :
          LET st == storms[i] IN
          /\ Len(st.per_domain) = st.n
          /\ \A p \in DOMAIN st.per_domain :
                /\ st.per_domain[p] # Pending
                /\ ~st.per_domain[p].success => st.per_domain[p].ip = "none"
          /\ st.res = "Ok"
          /\ Len(st.recs) = 1 /\ st.recs[1].status = "completed"

C10_Witness ==
    \E i \in DOMAIN storms :
        /\ storms[i].n >= 2
        /\ \A p \in DOMAIN storms[i].per_domain : ~storms[i].per_domain[p].success
        /\ phase = "returned" /\ result = "Ok"

\* The lines of a stream that the run of capability id appended.
LinesBy(stream, id) == SelectSeq(stream, LAMBDA l : l.by = id)

\* The itemized lines a finished DNS storm hands to its detail writer.
StormLines(st) ==
    [p \in DOMAIN st.per_domain |->
        Tag(ItemLine(config, "dns_query_storm", st.per_domain[p]), st.by)]

\* C11: every finished DNS storm of n probes has left n itemized lines and
\* one summary line whose total is n.
C11_AllDetailRecords ==
    \A i \in DOMAIN storms :
        LET st == storms[i] IN
        /\ Len(LinesBy(per_item, st.by)) = st.n
        /\ Len(LinesBy(summary, st.by)) = 1

\* How many of the lines items are the line l.
Copies(items, l) == Cardinality({j \in DOMAIN items : items[j] = l})

\* C11, amended: a DNS storm of n probes whose detail writer appended every
\* per-query line and the summary line has left exactly n itemized lines,
\* the line of each probe exactly once, and one summary line whose total is
\* n, whatever happens in the log section afterwards; a storm whose writer
\* failed before that has left at most n itemized lines, each the line of a
\* probe and none twice, and no summary line; either way the run has returned
\* Ok with one record of status completed.
C11_DetailRecordsWhenWritten ==
    \A i \in DOMAIN storms :
        LET st == storms[i]
            items == LinesBy(per_item, st.by)
            sums == LinesBy(summary, st.by)
            lines == StormLines(st)
        IN
        /\ st.res = "Ok"
        /\ Len(st.recs) = 1 /\ st.recs[1].status = "completed"
        /\ st.det \in {"ok", "log_err"} =>
              /\ Len(items) = st.n
              /\ \A p \in DOMAIN lines : Copies(items, lines[p]) = 1
              /\ Len(sums) = 1 /\ sums[1].data[1] = st.n
        /\ st.det \notin {"ok", "log_err"} =>
              /\ Len(items) <= st.n
              /\ \A j \in DOMAIN items : \E p \in DOMAIN lines : items[j] = lines[p]
              /\ \A p \in DOMAIN lines : Copies(items, lines[p]) <= 1
              /\ sums = <<>>

C11_Witness ==
    \E i \in DOMAIN storms :
        /\ storms[i].n >= 3
        /\ storms[i].det = "ok"
        /\ storms[i].res = "Ok"
        /\ Len(LinesBy(per_item, storms[i].by)) = storms[i].n
        /\ Len(LinesBy(summary, storms[i].by)) = 1
        /\ \E p, q \in DOMAIN storms[i].per_domain :
              storms[i].per_domain[p].success /\ ~storms[i].per_domain[q].success

\* C12: in the order the detail appends were made, the summary line of an
\* invocation comes after every itemized line of that invocation, and when
\* it is there all of the invocation's itemized lines are: as many as the
\* units its terminal record counts.
C12_SummaryAfterItems ==
    /\ \A j, k \in DOMAIN detail_log :
          (detail_log[j].stream = "summary" /\ detail_log[k].stream = "per_item"
              /\ detail_log[j].by = detail_log[k].by) => k < j
    /\ \A j \in DOMAIN summary :
          summary[j].module \in StormKinds =>
              /\ Len(LinesBy(per_item, summary[j].by)) = summary[j].data[1]
              /\ summary[j].data[1] > 0

C12_Witness ==
    \E j \in DOMAIN detail_log :
        /\ detail_log[j].stream = "summary"
        /\ j >= 3
        /\ \A k \in 1..(j - 1) :
              detail_log[k].stream = "per_item" /\ detail_log[k].by = detail_log[j].by

\* C13: the itemized lines a storm appends are in the order in which its
\* probes finished.
C13_CompletionOrder ==
    [][(storm # NoStorm /\ storm' = NoStorm) =>
          \A i \in 1..(Len(per_item') - Len(per_item)) :
              per_item'[Len(per_item) + i].item = storm.slots[storm.order[i]]]_vars

\* C14: a storm that has started its probes reaches its aggregation step.
C14_StormReachesAggregation == (storm # NoStorm) ~> (storm = NoStorm)

IsPrefix(s, t) == Len(s) <= Len(t) /\ SubSeq(t, 1, Len(s)) = s

\* C15: a stream is appended to only while no probe of a storm is still
\* running, by the one thread that has collected the results: a step that
\* appends to the ledger or to a detail stream starts with every probe of
\* the storm finished.
C15_AppendsSerialized ==
    [][(per_item' # per_item \/ summary' # summary \/ ledger' # ledger) =>
          \A p \in DOMAIN storm.slots : storm.slots[p] # Pending]_vars

C15_Witness ==
    /\ storms # <<>> /\ storms[1].n >= 2
    /\ Len(per_item) = storms[1].n
    /\ Len(summary) = 1 /\ Len(ledger) = 1

\* C16: every step leaves what the ledger and the detail streams held as a
\* prefix of what they hold after it, and the summary stream of the DNS storm
\* holds one line for each of its runs whose writer reached the summary.
C16_AppendOnly ==
    /\ [](Cardinality({i \in DOMAIN summary : summary[i].module = "dns_query_storm"})
            = Cardinality({i \in DOMAIN storms : storms[i].det \in {"ok", "log_err"}}))
    /\ [][/\ IsPrefix(ledger, ledger')
          /\ IsPrefix(per_item, per_item')
          /\ IsPrefix(summary, summary')]_vars

C16_Witness ==
    /\ Len(storms) = 2
    /\ Len(summary) = 2
    /\ summary[1].module = "dns_query_storm" /\ summary[2].module = "dns_query_storm"
    /\ summary[1].test_id = summary[2].test_id
    /\ summary[1].by # summary[2].by

\* C17: when Config::load() failed no capability's run is invoked.
C17_ConfigErrorAborts == load = "err" => invoked = <<>>

\* C18: main exits with a non-zero code exactly when run_all returned an
\* error, that error is the one of the first capability that failed, and a
\* run in which no capability failed prints the footer and exits with 0.
C18_ExitContract ==
    exit # Running =>
        /\ phase = "returned"
        /\ exit.code \in {0, 1}
        /\ (exit.code # 0) <=> (result # "Ok")
        /\ result # "Ok" =>
              \E i \in DOMAIN returns :
                  /\ Failed(returns[i]) /\ returns[i].res = result
                  /\ \A j \in 1..(i - 1) : ~Failed(returns[j])
        /\ (\A i \in DOMAIN returns : ~Failed(returns[i])) =>
              exit = [code |-> 0, footer |-> TRUE]

C18_Witness ==
    /\ exit.code = 1
    /\ Len(returns) = 2
    /\ ~Failed(returns[1]) /\ Failed(returns[2])

\* C19: under dry_run run_all returns Ok and main exits with 0.
C19_DryRunNeverFails ==
    config.dry_run => (result \in {"none", "Ok"} /\ exit.code \in {-1, 0})

\* Some of the sub-steps a terminal record counts failed, and some did not.
SomeFailed(kind, details) ==
    CASE kind = "enable_rdp" -> (\E i \in 1..3 : details[i] = 0) /\ (\E i \in 1..3 : details[i] = 1)
      [] kind = "time_manipulation_sim" -> details[2] > 0 /\ details[2] < details[1]
      [] kind \in StormKinds -> details[1] > 0 /\ details[2] > 0
      [] OTHER -> FALSE

\* C20: a run that got to its terminal record with only some of its sub-steps
\* failed returns Ok, and that record is partial or completed.
C20_PartialFailureIsOk ==
    \A i \in DOMAIN returns :
        \A w \in DOMAIN write_calls :
            (/\ write_calls[w].by = returns[i].id
             /\ write_calls[w].status # "dry-run"
             /\ SomeFailed(returns[i].kind, write_calls[w].details)) =>
                /\ returns[i].res = "Ok"
                /\ write_calls[w].status \in {"partial", "completed"}

\* C21: at most one capability's run is in progress; while a storm's probes
\* are in flight its capability is the last one invoked and the only one
\* that has not returned; and a storm that has returned has left no probe
\* running.
C21_OneCapabilityAtATime ==
    /\ Len(invoked) - Len(returns) \in {0, 1}
    /\ \A i \in DOMAIN returns : returns[i].id = invoked[i].id
    /\ storm # NoStorm =>
          /\ active = storm.by
          /\ Len(returns) = Len(invoked) - 1
          /\ invoked[Len(invoked)].id = storm.by
    /\ storm = NoStorm => (active = 0 /\ Len(returns) = Len(invoked))
    /\ \A i \in DOMAIN storms :
          \A p \in DOMAIN storms[i].per_domain :
              storms[i].per_domain[p] \notin {Pending, Blocked}

C21_Witness ==
    /\ Len(invoked) = 2
    /\ invoked[1].kind = "dns_query_storm"
    /\ Len(storms) = 1 /\ storms[1].by = 1
    /\ <<1, "dns_lookup">> \in effects

\* C22: no step changes the Config, and every capability of the run saw its
\* dry_run value: the records written are dry-run records exactly when the
\* Config says dry_run.
C22_ConfigNeverMutated ==
    /\ [](\A w \in DOMAIN write_calls :
              (write_calls[w].status = "dry-run") <=> config.dry_run)
    /\ [][config' = config]_vars

C22_Witness ==
    /\ config.dry_run
    /\ Len(returns) = 2
    /\ \E v, w \in DOMAIN write_calls : write_calls[v].by = 1 /\ write_calls[w].by = 2

\* The values the status of an ActionRecord may take.
Statuses == {"dry-run", "completed", "written", "partial", "failed", "blocked"}

\* C23: the status of every ActionRecord handed to write_action_record is
\* one of dry-run, completed, written, partial, failed, blocked.
C23_StatusInSet ==
    \A w \in DOMAIN write_calls : write_calls[w].status \in Statuses

C23_Witness ==
    /\ \E w \in DOMAIN write_calls : write_calls[w].status = "blocked"
    /\ \E w \in DOMAIN write_calls : write_calls[w].status = "partial"

\* C24: every ActionRecord handed to write_action_record, every record in
\* the ledger and every summary line carries the test_id of the Config.
C24_TestIdMatchesConfig ==
    /\ \A w \in DOMAIN write_calls : write_calls[w].test_id = config.test_id
    /\ \A i \in DOMAIN ledger : ledger[i].test_id = config.test_id
    /\ \A i \in DOMAIN summary : summary[i].test_id = config.test_id

C24_Witness ==
    /\ config.test_id = "T-0"
    /\ Len(ledger) = 2
    /\ summary # <<>>

\* C25: while a storm is in flight, the detail record of every probe that
\* has finished is already in the per-query stream.
C25_FlushedAsProduced ==
    storm # NoStorm =>
        \A p \in DOMAIN storm.slots :
            storm.slots[p] \notin {Pending, Blocked} =>
                \E i \in DOMAIN per_item :
                    per_item[i].by = storm.by /\ per_item[i].item = storm.slots[p]

\* C26: the counts a storm reports when it is collected are the number of
\* probes, taken in the order they finished, whose result has success true,
\* and the number of probes minus that.
C26_CountsFromOutcomes ==
    [][(storm # NoStorm /\ storm' = NoStorm) =>
          LET ok == Cardinality({k \in DOMAIN storm.order :
                                    storm.slots[storm.order[k]].success})
              rec == write_calls'[Len(write_calls')]
          IN  /\ Len(storm.order) = nq
              /\ rec.details = <<ok, nq - ok>>]_vars

C26_Witness ==
    \E i \in DOMAIN storms :
        /\ storms[i].n >= 3
        /\ ~storms[i].per_domain[1].success
        /\ storms[i].per_domain[2].success
        /\ storms[i].recs[1].details[1] >= 1
        /\ storms[i].recs[1].details[2] >= 2

\* C27: the probe with index i targets candidate i mod L, a position of the
\* list; once the nq probes are issued every candidate has been targeted
\* floor(nq / L) or ceil(nq / L) times.
C27_RoundRobin ==
    LET L == DOMAINS_LEN
        targets == storm.slots
    IN
    /\ \A p \in DOMAIN targets :
          /\ targets[p].domain \in 0..(L - 1)
          /\ targets[p].domain = (p - 1) - L * ((p - 1) \div L)
    /\ Len(targets) = nq =>
          \A c \in 0..(L - 1) :
              Cardinality({p \in DOMAIN targets : targets[p].domain = c})
                  \in {nq \div L, (nq + L - 1) \div L}

C27_Witness ==
    /\ nq = TOTAL_QUERIES
    /\ Len(storm.slots) = nq
    /\ nq > DOMAINS_LEN
    /\ storm.slots[DOMAINS_LEN + 1].domain = 0
    /\ storm.slots[nq].domain = nq - DOMAINS_LEN - 1

\* C28: at every point of a storm, a probe has done nothing yet, or slept
\* once, or slept once and then entered its lookup: the sleep is for the
\* delay of its own draw, at least MIN_JITTER_MS and less than MAX_JITTER_MS,
\* no lookup comes before the sleep, and a probe that has finished or is
\* stuck in its lookup has done both.
C28_JitterBeforeLookup ==
    \A p \in DOMAIN storm.slots :
        LET st == storm.steps[p] IN
        /\ Len(st) <= 2
        /\ storm.slots[p] # Pending => Len(st) = 2
        /\ st = <<>> => storm.jitter[p] = 0
        /\ st # <<>> =>
              /\ st[1].op = "sleep"
              /\ st[1].ms = storm.jitter[p]
              /\ st[1].ms >= MIN_JITTER_MS /\ st[1].ms < MAX_JITTER_MS
              /\ st[1].ms \in 10..80
        /\ Len(st) = 2 => st[2].op = "lookup"

C28_Witness ==
    /\ Len(storm.order) >= 1
    /\ \E p, q, r \in DOMAIN storm.slots :
          /\ storm.slots[p] # Pending /\ Len(storm.steps[p]) = 2
          /\ storm.steps[p][1].ms = MIN_JITTER_MS
          /\ storm.slots[q] = Pending /\ Len(storm.steps[q]) = 1
          /\ storm.steps[q][1].ms = MAX_JITTER_MS - 1
          /\ InLookup(storm, r)

\* C29: every run of registry_persistence that set the Run key has also
\* invoked cleanup_run_key by the time it has returned, and a run that did
\* not set the key has not.
C29_RunKeyCleanedUp ==
    \A i \in DOMAIN returns :
        returns[i].kind = "registry_persistence" =>
            (<<returns[i].id, "run_key_set">> \in effects
                <=> <<returns[i].id, "run_key_cleanup">> \in effects)

C29_Witness ==
    \E i \in DOMAIN returns :
        /\ returns[i].kind = "registry_persistence"
        /\ returns[i].res = "Ok"
        /\ <<returns[i].id, "run_key_set">> \in effects
        /\ <<returns[i].id, "run_key_cleanup">> \in effects
        /\ \E j \in DOMAIN summary :
              summary[j].module = "registry_persistence" /\ summary[j].data = <<0>>

\* C30: a non-dry-run of enable_rdp returns an error exactly when the
\* listener check failed, whatever the registry and firewall steps gave; it
\* has made one write_action_record call, with status completed when the
\* three steps succeeded and partial otherwise; and it attempted the three
\* steps.
C30_RdpErrorIffVerifyFails ==
    \A i \in DOMAIN returns :
        (returns[i].kind = "enable_rdp" /\ ~config.dry_run) =>
            LET calls == CallsBy(returns[i].id) IN
            /\ Len(calls) = 1
            /\ Failed(returns[i]) <=> (calls[1].details[3] = 0)
            /\ (calls[1].status = "completed") <=> (calls[1].details = <<1, 1, 1>>)
            /\ calls[1].status \in {"completed", "partial"}
            /\ {<<returns[i].id, e>> : e \in {"reg_add", "firewall_rule", "netstat"}}
                  \subseteq effects

C30_Witness ==
    \E i \in DOMAIN returns :
        /\ returns[i].kind = "enable_rdp"
        /\ ~Failed(returns[i])
        /\ \E w \in DOMAIN write_calls :
              /\ write_calls[w].by = returns[i].id
              /\ write_calls[w].status = "partial"
              /\ write_calls[w].details = <<0, 1, 1>>

\* C31: a non-dry-run of time_manipulation_sim attempts its four offsets in
\* order, one attempt record each, whatever the earlier attempts gave; once
\* it has returned it has made one more SetSystemTime call, for the original
\* time and after the last attempt, exactly when some attempt succeeded; and
\* its one record has status completed when some attempt succeeded, blocked
\* otherwise.
C31_TimeAttemptsAndRestore ==
    (frame.kind = "time_manipulation_sim" /\ ~config.dry_run) =>
        LET succ == TimeSuccessful(frame.acc)
            recs == CallsBy(frame.by)
        IN
        /\ \A k \in DOMAIN frame.acc :
              frame.calls[k] = Call("SetSystemTime", k, 0, "", frame.acc[k] = "success")
        /\ frame.done =>
              /\ Len(frame.acc) = NUM_OFFSETS
              /\ Len(frame.calls) = NUM_OFFSETS + (IF succ > 0 THEN 1 ELSE 0)
              /\ \A k \in DOMAIN frame.calls :
                    (frame.calls[k].unit = 0) <=> (k = NUM_OFFSETS + 1)
              /\ Len(recs) = 1
              /\ recs[1].status = (IF succ > 0 THEN "completed" ELSE "blocked")
              /\ recs[1].details[1] = NUM_OFFSETS
              /\ recs[1].details[2] = succ
        /\ ~frame.done => Len(recs) = 0

C31_Witness ==
    /\ frame.kind = "time_manipulation_sim"
    /\ frame.done
    /\ frame.acc = <<"blocked", "blocked", "success", "blocked">>
    /\ Len(frame.calls) = NUM_OFFSETS + 1
    /\ ~frame.calls[NUM_OFFSETS + 1].ok
    /\ CallsBy(frame.by)[1].status = "completed"

\* C32: a non-dry-run of named_pipe_sim processes every pipe name, in order,
\* whatever the earlier ones gave; a pipe whose create_pipe failed yields
\* that one record and no client connect is attempted for it, any other
\* yields create_pipe, server_ready, client_connect in this order; between
\* two pipes no handle is open, and a client handle is closed exactly when it
\* was opened; total_pipes is the number of records and successful + failed
\* equals it.
C32_PipesProcessedAndClosed ==
    (frame.kind = "named_pipe_sim" /\ ~config.dry_run) =>
        LET lines == LinesBy(per_item, frame.by)
            sums == LinesBy(summary, frame.by)
            recs == CallsBy(frame.by)
            StagesOf(i) == SelectSeq([k \in DOMAIN lines |-> lines[k].item],
                                     LAMBDA r : r.pipe_name = i)
            total == Len(frame.acc)
                       + 2 * Cardinality({i \in DOMAIN frame.acc : frame.acc[i] # "nosrv"})
        IN
        /\ OpenHandles(frame.calls) = {}
        /\ \A a, b \in DOMAIN frame.calls : a < b => frame.calls[a].unit <= frame.calls[b].unit
        /\ \A i \in DOMAIN frame.acc :
              LET mine == CallsFor(frame.calls, i)
                  closes == SelectSeq(mine, LAMBDA c : c.op = "CloseHandle" /\ c.h = "client")
                  opens == SelectSeq(mine, LAMBDA c : c.op = "CreateFileW" /\ c.ok)
              IN
              /\ mine[1].op = "CreateNamedPipeW"
              /\ ~mine[1].ok => Len(mine) = 1
              /\ mine[1].ok => mine[2].op = "CreateFileW"
              /\ Len(closes) = Len(opens)
              /\ Len(opens) <= 1
        /\ frame.done =>
              /\ Len(frame.acc) = NUM_PIPES
              /\ Len(recs) = 1
              /\ recs[1].details[1] + recs[1].details[2] = total
              /\ \A k \in DOMAIN sums :
                    /\ sums[k].data[1] = total
                    /\ sums[k].data[2] + sums[k].data[3] = sums[k].data[1]
                    /\ Len(lines) = total
                    /\ \A i \in 1..NUM_PIPES :
                          LET st == StagesOf(i) IN
                          \/ Len(st) = 1 /\ st[1].stage = "create_pipe" /\ ~st[1].success
                          \/ /\ Len(st) = 3
                             /\ st[1].stage = "create_pipe" /\ st[1].success
                             /\ st[2].stage = "server_ready" /\ st[2].success
                             /\ st[3].stage = "client_connect"

C32_Witness ==
    /\ frame.kind = "named_pipe_sim"
    /\ frame.done
    /\ Len(frame.acc) = NUM_PIPES
    /\ frame.acc[1] = "nosrv"
    /\ frame.acc[2] = "noclient"
    /\ frame.acc[3] = "ok"
    /\ Len(LinesBy(summary, frame.by)) = 1
    /\ Len(LinesBy(per_item, frame.by)) > NUM_PIPES

\* The process handles that OpenProcess yielded and that are still open.
ProcessHandlesOpen == {h \in OpenHandles(frame.calls) : h[1] = "process"}

\* A run of minidump_proc that reached its loop over the targets.
DumpLoopReached ==
    /\ frame.kind = "minidump_proc"
    /\ ~config.dry_run
    /\ Len(frame.calls) > 0
    /\ frame.calls[1].ok

\* A failure on a target of minidump_proc neither ends the loop over the
\* targets nor makes run return an error.
DumpFailuresTolerated ==
    (DumpLoopReached /\ frame.done) =>
        /\ Len(frame.acc) = NUM_TARGETS
        /\ \A i \in 1..NUM_TARGETS : CallsFor(frame.calls, i) # <<>>
        /\ \A r \in DOMAIN returns : ~Failed(returns[r])

\* C33: in minidump_proc a failure on one target neither ends the loop over
\* the targets nor makes run return an error, and between two targets, that
\* is whenever dump_process has returned, no process handle that OpenProcess
\* yielded is open.
C33_DumpFailuresAndHandles ==
    /\ DumpFailuresTolerated
    /\ DumpLoopReached => ProcessHandlesOpen = {}

\* The LogonUserW calls among calls, in the order made.
Logons(calls) == SelectSeq(calls, LAMBDA c : c.op = "LogonUserW")

\* C34: in a non-dry-run of pwd_guessing whose enumeration gave n accounts,
\* the k-th attempt is the pair (account, password) at position k of the
\* account-major order, with one LogonUserW call each, whatever the earlier
\* attempts gave; once the run has returned, the attempts are the
\* NUM_PWDS * n pairs, which is the guess count of its one record, of status
\* written; when the enumeration failed, no logon is attempted, the one
\* record has status failed and run returns the error.
C34_EveryPairOnceInOrder ==
    (frame.kind = "pwd_guessing" /\ ~config.dry_run) =>
        LET recs == CallsBy(frame.by)
            logons == Logons(frame.calls)
        IN
        /\ Len(logons) = Len(frame.acc)
        /\ \A k \in DOMAIN frame.acc :
              /\ frame.acc[k].account = ((k - 1) \div NUM_PWDS) + 1
              /\ frame.acc[k].password_tested = ((k - 1) % NUM_PWDS) + 1
              /\ logons[k].unit = frame.acc[k].account
              /\ logons[k].sub = frame.acc[k].password_tested
              /\ logons[k].ok = frame.acc[k].success
        /\ (frame.done /\ frame.calls[1].ok) =>
              /\ Len(frame.acc) = NUM_PWDS * frame.n
              /\ Len(recs) = 1
              /\ recs[1].status = "written"
              /\ recs[1].details = <<Len(frame.acc), frame.n>>
              /\ \A r \in DOMAIN returns : ~Failed(returns[r])
        /\ ~frame.calls[1].ok =>
              /\ frame.done
              /\ frame.acc = <<>>
              /\ Len(recs) = 1
              /\ recs[1].status = "failed"
              /\ Len(returns) = 1
              /\ Failed(returns[1])

C34_Witness ==
    /\ frame.kind = "pwd_guessing"
    /\ frame.done
    /\ frame.n = MaxAccounts
    /\ Len(frame.acc) = NUM_PWDS * MaxAccounts
    /\ frame.acc[2].success
    /\ CallsBy(frame.by)[1].details[1] = NUM_PWDS * MaxAccounts

\* C35: a non-dry-run of enable_ssh runs its four commands in their order,
\* the k-th call being command k whatever the earlier commands gave, then
\* checks the port; once it has returned it has made one
\* write_action_record call, with status written, and has returned Ok,
\* whatever the commands, the port check and the telemetry writes gave.
C35_SshCommandsAllRun ==
    (frame.kind = "enable_ssh" /\ ~config.dry_run) =>
        LET recs == CallsBy(frame.by) IN
        /\ \A k \in DOMAIN frame.acc :
              frame.calls[k] = Call("powershell", k, 0, "", frame.acc[k])
        /\ Len(frame.calls) > Len(frame.acc) =>
              /\ Len(frame.acc) = NUM_SSH_CMDS
              /\ Len(frame.calls) = NUM_SSH_CMDS + 1
              /\ frame.calls[NUM_SSH_CMDS + 1].op = "TcpStream::connect"
        /\ frame.done =>
              /\ Len(frame.calls) = NUM_SSH_CMDS + 1
              /\ Len(recs) = 1
              /\ recs[1].status = "written"
              /\ Len(returns) = 1
              /\ ~Failed(returns[1])
        /\ ~frame.done => Len(recs) = 0 /\ returns = <<>>

C35_Witness ==
    /\ frame.kind = "enable_ssh"
    /\ frame.done
    /\ frame.acc = <<FALSE, TRUE, FALSE, TRUE>>
    /\ ~frame.calls[NUM_SSH_CMDS + 1].ok
    /\ ~CallsBy(frame.by)[1].stored
    /\ summary = <<>>
    /\ returns[1].res = "Ok"

====
